---- MODULE Spec2Model ----
(***************************************************************************)
(* A model of the PDF exporter of PeakRDL-pdf (src/peakrdl_pdf/exporter.py *)
(* and the legacy variant src/peakrdl/pdf/exporter.py): the numeric        *)
(* formatter, the access-mnemonic resolver and the summary pass            *)
(* create_regmap_list that reconciles the gaps between registers.          *)
(*                                                                         *)
(* Python strings are sequences of one-character strings, so that          *)
(* formatting and parsing are computed and not assumed.                    *)
(***************************************************************************)
EXTENDS Integers, Sequences, FiniteSets, TLC

VARIABLES
    node,            \* the AddrmapNode handed to create_regmap_list
    root_id,         \* the root_id handed to create_regmap_list
    pc,              \* position inside create_regmap_list
    reg_id,          \* number of registers of node the loop has processed
    address_width,   \* self.address_width
    base_address,    \* self.base_address
    elem_addr_bits,  \* self.elem_addr_bits
    units,           \* self.units
    use_uppercase_inst_name,  \* self.use_uppercase_inst_name
    calls,           \* the calls received by the PDFCreator backend, in order
    fn,              \* the last call of a helper method and what it returned
    node_list,       \* the node_list argument of the export in progress
    kwargs,          \* what is left of the keyword arguments of that export
    pages,           \* self.pages
    reverse,         \* self.reverse
    exc,             \* the exception that ended the export, None without one
    map_id,          \* maps of the current top-level node processed so far
    export_id,       \* which input the export in progress was called with
    history          \* the exports that have ended: input and backend calls

\* the state only export() and generate_output_pdf() read or write
export_vars == <<node_list, kwargs, pages, reverse, exc, map_id, export_id, history>>

vars == <<node, root_id, pc, reg_id, address_width, base_address, elem_addr_bits, units,
          use_uppercase_inst_name, calls, fn, node_list, kwargs, pages, reverse, exc, map_id,
          export_id, history>>

None == "None"

----------------------------------------------------------------------------
(* Bounds of the model *)

MaxRegs == 2
MaxMapSize == 12
MaxValue == 40

----------------------------------------------------------------------------
(* Integer helpers: Python's >>, <<, min and max on ints *)

Min(a, b) == IF a < b THEN a ELSE b
Max(a, b) == IF a > b THEN a ELSE b

RECURSIVE Pow2(_)
Pow2(n) == IF n = 0 THEN 1 ELSE 2 * Pow2(n - 1)

\* x >> n : floor division, also for negative x
ShiftR(x, n) == x \div Pow2(n)
\* x << n
ShiftL(x, n) == x * Pow2(n)

\* int(math.log2(x)) for x >= 1
RECURSIVE Log2Floor(_)
Log2Floor(x) == IF x < 2 THEN 0 ELSE 1 + Log2Floor(x \div 2)

----------------------------------------------------------------------------
(* Python values that may be an int or a str, and properties of the model, *)
(* which a node either has (Some) or lacks (Absent)                        *)

Absent  == <<>>
Some(v) == <<v>>

\* node.get_property(name, default=d) for the property value p
get_property(p, d) == IF p = Absent THEN d ELSE p[1]

PyInt(n) == [t |-> "int", i |-> n]
PyStr(s) == [t |-> "str", s |-> s]
PyNone   == [t |-> "NoneType"]

----------------------------------------------------------------------------
(* Text: str(int), the 'x' presentation, str.upper(), and the parsers the  *)
(* properties use to read a formatted value back                           *)

DecDigits == <<"0", "1", "2", "3", "4", "5", "6", "7", "8", "9">>
HexDigitsLower == DecDigits \o <<"a", "b", "c", "d", "e", "f">>
HexDigitsUpper == DecDigits \o <<"A", "B", "C", "D", "E", "F">>

\* str(n) for n >= 0
RECURSIVE DecOf(_)
DecOf(n) == IF n < 10 THEN <<DecDigits[n + 1]>>
            ELSE DecOf(n \div 10) \o <<DecDigits[(n % 10) + 1]>>

\* the digits of format(n, 'x') for n >= 0
RECURSIVE HexOf(_)
HexOf(n) == IF n < 16 THEN <<HexDigitsLower[n + 1]>>
            ELSE HexOf(n \div 16) \o <<HexDigitsLower[(n % 16) + 1]>>

LowerLetters == <<"a", "b", "c", "d", "e", "f", "g", "h", "i", "j", "k", "l", "m",
                  "n", "o", "p", "q", "r", "s", "t", "u", "v", "w", "x", "y", "z">>
UpperLetters == <<"A", "B", "C", "D", "E", "F", "G", "H", "I", "J", "K", "L", "M",
                  "N", "O", "P", "Q", "R", "S", "T", "U", "V", "W", "X", "Y", "Z">>

ToUpper == [c \in {LowerLetters[k] : k \in 1..26} |->
               UpperLetters[CHOOSE k \in 1..26 : LowerLetters[k] = c]]
ToLower == [c \in {UpperLetters[k] : k \in 1..26} |->
               LowerLetters[CHOOSE k \in 1..26 : UpperLetters[k] = c]]

UpperChar(c) == IF c \in DOMAIN ToUpper THEN ToUpper[c] ELSE c
LowerChar(c) == IF c \in DOMAIN ToLower THEN ToLower[c] ELSE c

\* s.upper()
StrUpper(s) == [k \in 1..Len(s) |-> UpperChar(s[k])]
\* s.lower()
StrLower(s) == [k \in 1..Len(s) |-> LowerChar(s[k])]

Zeros(n) == [k \in 1..n |-> "0"]

\* One group of CPython's grouping loop, from the least significant digits:
\* rem digits of digs are left, mw is what is left of the minimum width.
RECURSIVE InsertGrouping(_, _, _, _, _)
InsertGrouping(digs, rem, mw, out, first) ==
    LET l    == Min(4, Max(Max(rem, mw), 1))
        nch  == Max(0, Min(rem, l))
        nz   == Max(0, l - rem)
        grp  == Zeros(nz) \o SubSeq(digs, rem - nch + 1, rem)
        out2 == grp \o (IF first THEN <<>> ELSE <<"_">>) \o out
        rem2 == rem - nch
        mw2  == mw - l
    IN  IF rem2 <= 0 /\ mw2 <= 0 THEN out2
        ELSE InsertGrouping(digs, rem2, mw2 - 1, out2, FALSE)

\* ('{:0' + str(total_width) + '_x}').format(value)
PyFormatHex(value, total_width) ==
    LET neg  == value < 0
        digs == HexOf(IF neg THEN -value ELSE value)
        mw   == total_width - (IF neg THEN 1 ELSE 0)
    IN  (IF neg THEN <<"-">> ELSE <<>>) \o InsertGrouping(digs, Len(digs), mw, <<>>, TRUE)

----------------------------------------------------------------------------
(* Numeric formatter *)

\* PDFExporter.format_number(address, bits): the text returned, or the
\* exception raised by  bits + "'h"  when bits is an int
format_number(address, bits) ==
    LET no_of_nib   == ShiftR(address_width + 3, 2)
        total_width == ShiftR(no_of_nib + 3, 2) + no_of_nib
        final_value == PyFormatHex(address, total_width)
    IN  IF bits.t = "str"
        THEN [exc |-> None, val |-> bits.s \o <<"'", "h">> \o StrUpper(final_value)]
        ELSE [exc |-> "TypeError", val |-> <<>>]

\* PDFExporter.format_address(address)
format_address(address) == format_number(address, PyStr(DecOf(address_width)))

\* PDFExporter.get_field_reset(field)
get_field_reset(field) ==
    LET field_reset == get_property(field.reset, 0)
        field_width == field.width
    IN  format_number(field_reset, PyInt(field_width))

\* a | b on ints >= 0
RECURSIVE BitOr(_, _)
BitOr(a, b) ==
    IF a = 0 THEN b
    ELSE IF b = 0 THEN a
    ELSE 2 * BitOr(a \div 2, b \div 2) + (IF a % 2 = 1 \/ b % 2 = 1 THEN 1 ELSE 0)

\* the loop of get_reg_reset over node.fields(), from field k on
RECURSIVE reg_reset_loop(_, _, _)
reg_reset_loop(fields, k, reg_reset) ==
    IF k > Len(fields) THEN reg_reset
    ELSE LET field_reset   == get_property(fields[k].reset, 0)
             field_lsb_pos == fields[k].lsb
         IN  reg_reset_loop(fields, k + 1, BitOr(reg_reset, ShiftL(field_reset, field_lsb_pos)))

\* get_reg_reset with a default width of 32 handed on as text
get_reg_reset_mut_default(n) ==
    LET reg_reset == reg_reset_loop(n.fields, 1, 0)
    IN  format_number(reg_reset, PyStr(DecOf(get_property(n.regwidth, 32))))

\* PDFExporter.get_reg_reset(node); node.get_property('regwidth') is an int,
\* or None for a register without the property
get_reg_reset(n) ==
    LET reg_reset      == reg_reset_loop(n.fields, 1, 0)
        register_width == IF n.regwidth = Absent THEN PyNone ELSE PyInt(n.regwidth[1])
    IN  format_number(reg_reset, register_width)

\* PDFExporter.get_reg_reset(node) of the legacy exporter, which formats the
\* value itself; register_width/4 is a float that int() truncates
get_reg_reset_legacy(n) ==
    LET reg_reset == reg_reset_loop(n.fields, 1, 0)
    IN  IF n.regwidth = Absent THEN [exc |-> "TypeError", val |-> <<>>]
        ELSE LET register_width == n.regwidth[1]
                 format_width   == IF register_width = 64 THEN 16 + 3
                                   ELSE IF register_width = 32 THEN 8 + 1
                                   ELSE register_width \div 4
                 final_value    == PyFormatHex(reg_reset, format_width)
             IN  [exc |-> None,
                  val |-> DecOf(register_width) \o <<"'", "h">> \o StrUpper(final_value)]

\* PDFExporter.check_udp(prop_name, node)
check_udp(prop_name, n) == n.udp[prop_name] # Absent

\* PDFExporter.get_address_width(node)
get_address_width(n) ==
    IF ~check_udp("address_width_p", n) THEN 32
    ELSE get_property(n.udp["address_width_p"], 32)

----------------------------------------------------------------------------
(* Access mnemonic resolver *)

AccessTypes  == {"rw", "r", "w", "rw1", "w1", "na"}
OnReadTypes  == {None, "rclr", "rset", "ruser"}
OnWriteTypes == {None, "woset", "woclr", "wot", "wzs", "wzc", "wzt", "wclr", "wset", "wuser"}

\* the read-write branch with the single-sided effects tested first
access_rw_mut_order(onread, onwrite) ==
    IF onwrite = None /\ onread = None THEN "RW"
    ELSE IF onwrite = "woclr" THEN "RW1C"
    ELSE IF onwrite = "woset" THEN "RW1S"
    ELSE IF onwrite = "wot" THEN "RW1T"
    ELSE IF onwrite = "wzc" THEN "RW0C"
    ELSE IF onwrite = "wzs" THEN "RW0S"
    ELSE IF onwrite = "wzt" THEN "RW0T"
    ELSE IF onwrite = "wclr" THEN "RWC"
    ELSE IF onwrite = "wset" THEN "RWS"
    ELSE IF onread = "rclr" THEN "WRC"
    ELSE IF onread = "rset" THEN "WRS"
    ELSE "RW"

\* get_field_access, sw == AccessType.rw
access_rw(onread, onwrite) ==
    IF onwrite = None /\ onread = None THEN "RW"
    ELSE IF onread = "rclr" /\ onwrite = "woset" THEN "W1SRC"
    ELSE IF onread = "rclr" /\ onwrite = "wzs" THEN "W0SRC"
    ELSE IF onread = "rclr" /\ onwrite = "wset" THEN "WSRC"
    ELSE IF onread = "rset" /\ onwrite = "woclr" THEN "W1CRS"
    ELSE IF onread = "rset" /\ onwrite = "wzc" THEN "W0CRS"
    ELSE IF onread = "rset" /\ onwrite = "wclr" THEN "WCRS"
    ELSE IF onwrite = "woclr" THEN "RW1C"
    ELSE IF onwrite = "woset" THEN "RW1S"
    ELSE IF onwrite = "wot" THEN "RW1T"
    ELSE IF onwrite = "wzc" THEN "RW0C"
    ELSE IF onwrite = "wzs" THEN "RW0S"
    ELSE IF onwrite = "wzt" THEN "RW0T"
    ELSE IF onwrite = "wclr" THEN "RWC"
    ELSE IF onwrite = "wset" THEN "RWS"
    ELSE IF onread = "rclr" THEN "WRC"
    ELSE IF onread = "rset" THEN "WRS"
    ELSE "RW"

\* get_field_access, sw == AccessType.r
access_r(onread) ==
    IF onread = None THEN "RO"
    ELSE IF onread = "rclr" THEN "RC"
    ELSE IF onread = "rset" THEN "RS"
    ELSE "RO"

\* the write-only branch without its final else: the method returns None
access_w_mut_noelse(onwrite) ==
    IF onwrite = None THEN "WO"
    ELSE IF onwrite = "wclr" THEN "WOC"
    ELSE IF onwrite = "wset" THEN "WOS"
    ELSE None

\* get_field_access, sw == AccessType.w
access_w(onwrite) ==
    IF onwrite = None THEN "WO"
    ELSE IF onwrite = "wclr" THEN "WOC"
    ELSE IF onwrite = "wset" THEN "WOS"
    ELSE "WO"

\* PDFExporter.get_field_access(field), src/peakrdl_pdf
get_field_access(field) ==
    LET sw      == field.sw
        onread  == field.onread
        onwrite == field.onwrite
    IN  IF sw = "rw" THEN access_rw(onread, onwrite)
        ELSE IF sw = "r" THEN access_r(onread)
        ELSE IF sw = "w" THEN access_w(onwrite)
        ELSE IF sw = "rw1" THEN "W1"
        ELSE IF sw = "w1" THEN "WO1"
        ELSE "NOACCESS"

\* PDFExporter.get_field_access(field), src/peakrdl/pdf (legacy variant)
get_field_access_legacy(field) ==
    LET sw      == field.sw
        onread  == field.onread
        onwrite == field.onwrite
    IN  IF sw = "rw" THEN
            IF onwrite = None /\ onread = None THEN "RW"
            ELSE IF onread = "rclr" /\ onwrite = "woset" THEN "W1SRC"
            ELSE IF onread = "rclr" /\ onwrite = "wzs" THEN "W0SRC"
            ELSE IF onread = "rclr" /\ onwrite = "wset" THEN "WSRC"
            ELSE IF onread = "rset" /\ onwrite = "woclr" THEN "W1CRS"
            ELSE IF onread = "rset" /\ onwrite = "wzc" THEN "W0CRS"
            ELSE IF onread = "rset" /\ onwrite = "wclr" THEN "WCRS"
            ELSE IF onwrite = "woclr" THEN "RW1C"
            ELSE IF onwrite = "woset" THEN "RW1S"
            ELSE IF onwrite = "wot" THEN "RW1T"
            ELSE IF onwrite = "wzc" THEN "RW0C"
            ELSE IF onwrite = "wzs" THEN "RW0S"
            ELSE IF onwrite = "wzt" THEN "RW0T"
            ELSE IF onwrite = "wclr" THEN "RWC"
            ELSE IF onwrite = "wset" THEN "RWS"
            ELSE IF onread = "rclr" THEN "WRC"
            ELSE IF onread = "rset" THEN "WRS"
            ELSE "RW"
        ELSE IF sw = "r" THEN
            IF onread = None THEN "RO"
            ELSE IF onread = "rclr" THEN "RC"
            ELSE IF onread = "rset" THEN "RS"
            ELSE "RO"
        ELSE IF sw = "w" THEN
            IF onwrite = None THEN "WO"
            ELSE IF onwrite = "wclr" THEN "WOC"
            ELSE IF onwrite = "wset" THEN "WOS"
            ELSE "WO"
        ELSE IF sw = "rw1" THEN "W1"
        ELSE IF sw = "w1" THEN "WO1"
        ELSE "NOACCESS"

----------------------------------------------------------------------------
(* Reading a formatted value back *)

\* s.find(c), counted from 1; 0 when c is not in s
RECURSIVE IndexFrom(_, _, _)
IndexFrom(s, c, k) == IF k > Len(s) THEN 0 ELSE IF s[k] = c THEN k ELSE IndexFrom(s, c, k + 1)
IndexOf(s, c) == IndexFrom(s, c, 1)

HexValue == [c \in {HexDigitsUpper[k] : k \in 1..16} |->
                (CHOOSE k \in 1..16 : HexDigitsUpper[k] = c) - 1]

DigitValue(c) == IF c \in DOMAIN HexValue THEN HexValue[c] ELSE -1

IsHexDigit(c) == c \in DOMAIN HexValue

\* int(s[k:].replace("_", ""), base) for an upper-case s
RECURSIVE ParseDigits(_, _, _, _)
ParseDigits(s, k, base, acc) ==
    IF k > Len(s) THEN acc
    ELSE IF s[k] = "_" THEN ParseDigits(s, k + 1, base, acc)
    ELSE ParseDigits(s, k + 1, base, base * acc + DigitValue(s[k]))

\* int(s.replace("_", ""), 16), with an optional sign
ParseHex(s) == IF s # <<>> /\ s[1] = "-" THEN - ParseDigits(s, 2, 16, 0)
               ELSE ParseDigits(s, 1, 16, 0)

ParseDec(s) == ParseDigits(s, 1, 10, 0)

\* the text before "'h" and the text after it
WidthPrefix(s) == SubSeq(s, 1, IndexOf(s, "'") - 1)
HexBody(s)     == SubSeq(s, IndexOf(s, "'") + 2, Len(s))
NumberValue(s) == ParseHex(HexBody(s))

CountDigits(s) == Cardinality({k \in 1..Len(s) : IsHexDigit(s[k])})

\* digits in groups of 4 counted from the right, single underscores between
\* the groups, nothing else
GroupedBy4(s) ==
    /\ s # <<>>
    /\ \A k \in 1..Len(s) :
          LET fromRight == Len(s) - k + 1
          IN  IF fromRight % 5 = 0 THEN s[k] = "_" ELSE IsHexDigit(s[k])
    /\ Head(s) # "_"

----------------------------------------------------------------------------
(* The exporter after __init__, and one helper method called on it, after  *)
(* an earlier map may have set the address width                           *)

MkUdp(aw, es, ba) == [address_width_p |-> aw, addr_elem_size |-> es, base_address_p |-> ba]

AddrWidthValues == {8, 12, 16, 20, 32}
WidthArgs == {1, 4, 8, 12, 16, 32}
Values == (0..MaxValue) \cup {Pow2(k) - 1 : k \in {8, 12, 16, 20, 24, 30}}
                        \cup {Pow2(k) : k \in {8, 12, 16, 20, 24, 30}}
Fields == [sw : AccessTypes, onread : OnReadTypes, onwrite : OnWriteTypes]
ResetFields == [reset : {Absent, Some(0), Some(5), Some(10)}, width : {1, 4, 8}]

FieldAt(lsb, width, reset) == [lsb |-> lsb, msb |-> lsb + width - 1, width |-> width, reset |-> reset]
ResetValues == {Absent, Some(0), Some(5), Some(10)}
RegWidths == {Absent, Some(8), Some(16), Some(32)}
ResetRegs ==
    { [fields |-> fs, regwidth |-> w] :
        fs \in {<<>>} \cup {<<FieldAt(0, 1, r)>> : r \in {Absent, Some(1)}}
                     \cup {<<FieldAt(0, 4, ra), FieldAt(4, 4, rb)>> : ra \in ResetValues,
                                                                     rb \in ResetValues},
        w \in RegWidths }

Idle == [op |-> "idle"]

HelperInit ==
    /\ node = None
    /\ root_id = 0
    /\ pc = "idle"
    /\ reg_id = 0
    /\ address_width = 32
    /\ base_address = 0
    /\ elem_addr_bits = None
    /\ units = None
    /\ use_uppercase_inst_name = TRUE
    /\ calls = <<>>
    /\ fn = Idle
    /\ node_list = <<>>
    /\ kwargs = <<>>
    /\ pages = None
    /\ reverse = FALSE
    /\ exc = None
    /\ map_id = 0
    /\ export_id = 0
    /\ history = <<>>

\* set_address_width(node)
set_address_width ==
    \E aw \in {Some(w) : w \in AddrWidthValues} \cup {Absent} :
        /\ pc = "idle" /\ fn = Idle
        /\ address_width' = get_address_width([udp |-> MkUdp(aw, Absent, Absent)])
        /\ fn' = [op |-> "set_address_width"]
        /\ UNCHANGED export_vars
        /\ UNCHANGED <<node, root_id, pc, reg_id, base_address, elem_addr_bits, units,
                       use_uppercase_inst_name, calls>>

\* format_number(address, bits) with bits a str
call_format_number_str ==
    \E v \in Values, w \in WidthArgs :
        /\ pc = "idle" /\ fn.op \in {"idle", "set_address_width"}
        /\ fn' = [op |-> "format_number", address |-> v, bits |-> PyStr(DecOf(w)), width |-> w,
                  ret |-> format_number(v, PyStr(DecOf(w)))]
        /\ UNCHANGED export_vars
        /\ UNCHANGED <<node, root_id, pc, reg_id, address_width, base_address, elem_addr_bits, units,
                       use_uppercase_inst_name, calls>>

\* format_number(address, bits) with bits an int
call_format_number_int ==
    \E v \in Values, w \in WidthArgs :
        /\ pc = "idle" /\ fn.op \in {"idle", "set_address_width"}
        /\ fn' = [op |-> "format_number", address |-> v, bits |-> PyInt(w), width |-> w,
                  ret |-> format_number(v, PyInt(w))]
        /\ UNCHANGED export_vars
        /\ UNCHANGED <<node, root_id, pc, reg_id, address_width, base_address, elem_addr_bits, units,
                       use_uppercase_inst_name, calls>>

call_format_address ==
    \E v \in Values :
        /\ pc = "idle" /\ fn.op \in {"idle", "set_address_width"}
        /\ fn' = [op |-> "format_address", address |-> v, ret |-> format_address(v)]
        /\ UNCHANGED export_vars
        /\ UNCHANGED <<node, root_id, pc, reg_id, address_width, base_address, elem_addr_bits, units,
                       use_uppercase_inst_name, calls>>

call_get_field_reset ==
    \E f \in ResetFields :
        /\ pc = "idle" /\ fn.op \in {"idle", "set_address_width"}
        /\ fn' = [op |-> "get_field_reset", field |-> f, ret |-> get_field_reset(f)]
        /\ UNCHANGED export_vars
        /\ UNCHANGED <<node, root_id, pc, reg_id, address_width, base_address, elem_addr_bits, units,
                       use_uppercase_inst_name, calls>>

call_get_field_access ==
    \E f \in Fields :
        /\ pc = "idle" /\ fn.op \in {"idle", "set_address_width"}
        /\ fn' = [op |-> "get_field_access", field |-> f, ret |-> get_field_access(f)]
        /\ UNCHANGED export_vars
        /\ UNCHANGED <<node, root_id, pc, reg_id, address_width, base_address, elem_addr_bits, units,
                       use_uppercase_inst_name, calls>>

call_get_field_access_legacy ==
    \E f \in Fields :
        /\ pc = "idle" /\ fn.op \in {"idle", "set_address_width"}
        /\ fn' = [op |-> "get_field_access_legacy", field |-> f, ret |-> get_field_access_legacy(f)]
        /\ UNCHANGED export_vars
        /\ UNCHANGED <<node, root_id, pc, reg_id, address_width, base_address, elem_addr_bits, units,
                       use_uppercase_inst_name, calls>>

call_get_reg_reset ==
    \E r \in ResetRegs :
        /\ pc = "idle" /\ fn.op \in {"idle", "set_address_width"}
        /\ fn' = [op |-> "get_reg_reset", reg |-> r, ret |-> get_reg_reset(r)]
        /\ UNCHANGED export_vars
        /\ UNCHANGED <<node, root_id, pc, reg_id, address_width, base_address, elem_addr_bits, units,
                       use_uppercase_inst_name, calls>>

call_get_reg_reset_legacy ==
    \E r \in ResetRegs :
        /\ pc = "idle" /\ fn.op \in {"idle", "set_address_width"}
        /\ fn' = [op |-> "get_reg_reset_legacy", reg |-> r, ret |-> get_reg_reset_legacy(r)]
        /\ UNCHANGED export_vars
        /\ UNCHANGED <<node, root_id, pc, reg_id, address_width, base_address, elem_addr_bits, units,
                       use_uppercase_inst_name, calls>>

HelperNext ==
    \/ set_address_width
    \/ call_format_number_str
    \/ call_format_number_int
    \/ call_format_address
    \/ call_get_field_reset
    \/ call_get_field_access
    \/ call_get_field_access_legacy
    \/ call_get_reg_reset
    \/ call_get_reg_reset_legacy

HelperSpec == HelperInit /\ [][HelperNext]_vars

----------------------------------------------------------------------------
(* The register maps handed to the summary pass. Registers are as the      *)
(* SystemRDL compiler elaborates them: a size of 1, 2 or 4 bytes, an       *)
(* offset that is a multiple of the size, ascending and not overlapping,   *)
(* inside the map. An array register has two elements placed back to back. *)
(* node.regs holds the registers node.registers() has yielded so far.      *)

RegSizes == {1, 2, 4}
ElemSizeValues == {2, 4}

\* RegNode.total_size
total_size(reg) ==
    IF reg.is_array
    THEN reg.array_stride * (reg.array_dimensions[1] - 1) + reg.size
    ELSE reg.size

RegEnd(reg) == reg.raw_address_offset + total_size(reg)

PlainReg(k, off, sz) ==
    [inst_name |-> <<"r", "e", "g">> \o DecOf(k), raw_address_offset |-> off, size |-> sz,
     is_array |-> FALSE, array_dimensions |-> <<>>, array_stride |-> sz, unroll |-> Absent]

ArrayReg(k, off, sz, un) ==
    [inst_name |-> <<"r", "e", "g">> \o DecOf(k), raw_address_offset |-> off, size |-> sz,
     is_array |-> TRUE, array_dimensions |-> <<2>>, array_stride |-> sz, unroll |-> un]

\* the registers node.registers() may yield as register k of a map of the
\* given size, after a register that ends at prev_end
NextRegs(k, prev_end, size) ==
    { r \in UNION { {PlainReg(k, off, sz), ArrayReg(k, off, sz, Absent),
                      ArrayReg(k, off, sz, Some(TRUE))}
                    : sz \in RegSizes, off \in prev_end..size } :
        /\ r.raw_address_offset % r.size = 0
        /\ RegEnd(r) <= size }

LastEnd(regs) == IF regs = <<>> THEN 0 ELSE RegEnd(regs[Len(regs)])

Maps ==
    { [name |-> <<"m">>, regs |-> <<>>, size |-> MaxMapSize, udp |-> MkUdp(Absent, es, Absent)] :
        es \in {Absent} \cup {Some(e) : e \in ElemSizeValues} }

----------------------------------------------------------------------------
(* create_regmap_list: the summary pass over one map *)

\* PDFExporter.get_inst_name(node)
get_inst_name(n) ==
    IF use_uppercase_inst_name THEN StrUpper(n.inst_name) ELSE StrLower(n.inst_name)

\* PDFExporter.get_base_address(node)
get_base_address(n) ==
    IF ~check_udp("base_address_p", n)
    THEN format_address(ShiftR(0, elem_addr_bits)).val
    ELSE format_address(ShiftR(get_property(n.udp["base_address_p"], 0), elem_addr_bits)).val

\* hex(n) of Python
PyHex(n) == <<"0", "x">> \o HexOf(n)

\* PDFExporter.get_addrmap_size(node)
get_addrmap_size(n) == PyHex(ShiftR(n.size, elem_addr_bits))

Through == <<" ", "t", "h", "r", "o", "u", "g", "h", " ">>
Dash == <<"-">>

create_reg_list_info(data, reserved) ==
    [op |-> "create_reg_list_info", data |-> data, reserved |-> reserved]

\* reserved_at_start with the range ending at the first register's own offset
reserved_at_start_mut_end(reg) ==
    LET offset_range == format_address(0).val \o Through
                        \o format_address(ShiftR(reg.raw_address_offset, elem_addr_bits)).val
    IN  <<create_reg_list_info(
            [units |-> units, Offset |-> offset_range, Identifier |-> Dash, Name |-> Dash], 1)>>

\* the branch "Reserved addresses at the start of the address map"
reserved_at_start(reg) ==
    LET offset_range == format_address(0).val \o Through
                        \o format_address(ShiftR(reg.raw_address_offset, elem_addr_bits) - 1).val
    IN  <<create_reg_list_info(
            [units |-> units, Offset |-> offset_range, Identifier |-> Dash, Name |-> Dash], 1)>>

\* the branch "Reserved addresses in between the address map - for single space"
single_space(reg, reg_previous) ==
    <<create_reg_list_info(
        [units |-> units,
         Offset |-> format_address(ShiftR(reg_previous.raw_address_offset
                                          + total_size(reg_previous), elem_addr_bits)).val,
         Identifier |-> Dash, Name |-> Dash], 1)>>

\* range_space with the range running up to the register that follows
range_space_mut_end(reg, reg_previous) ==
    LET start_addr == reg_previous.raw_address_offset + total_size(reg_previous)
        offset_range == format_address(ShiftR(start_addr, elem_addr_bits)).val \o Through
                        \o format_address(ShiftR(reg.raw_address_offset, elem_addr_bits)).val
    IN  <<create_reg_list_info(
            [units |-> units, Offset |-> offset_range, Identifier |-> Dash, Name |-> Dash], 1)>>

\* the branch "Reserved addresses in between the address map - for a range
\* of free spaces"
range_space(reg, reg_previous) ==
    LET start_addr == reg_previous.raw_address_offset + total_size(reg_previous)
        delta == ShiftR(reg.raw_address_offset, elem_addr_bits)
                 - ShiftR(reg_previous.raw_address_offset + total_size(reg_previous),
                          elem_addr_bits)
        end_addr == ShiftR(reg_previous.raw_address_offset + total_size(reg_previous),
                           elem_addr_bits)
                    + (delta - (delta % ShiftL(total_size(reg), elem_addr_bits)))
        offset_range == format_address(ShiftR(start_addr, elem_addr_bits)).val \o Through
                        \o format_address(end_addr - 1).val
    IN  <<create_reg_list_info(
            [units |-> units, Offset |-> offset_range, Identifier |-> Dash, Name |-> Dash], 1)>>

\* reserved_rows without the single-space branch, as in the legacy exporter
reserved_rows_mut_nosingle(id, regs) ==
    LET reg == regs[id + 1]
        reg_previous == regs[id]
    IN  IF id = 0 /\ reg.raw_address_offset # 0 THEN reserved_at_start(reg)
        ELSE IF id # 0 /\ reg_previous.raw_address_offset + total_size(reg_previous)
                          < reg.raw_address_offset
             THEN range_space(reg, reg_previous)
        ELSE <<>>

\* the if / elif chain that places a reserved row before register id of regs
\* (id counts from 0, as reg_id does)
reserved_rows(id, regs) ==
    LET reg == regs[id + 1]
        reg_previous == regs[id]
    IN  IF id = 0 /\ reg.raw_address_offset # 0 THEN reserved_at_start(reg)
        ELSE IF id # 0 /\ reg_previous.raw_address_offset + 2 * total_size(reg_previous)
                          = reg.raw_address_offset
             THEN single_space(reg, reg_previous)
        ELSE IF id # 0 /\ reg_previous.raw_address_offset + total_size(reg_previous)
                          < reg.raw_address_offset
             THEN range_space(reg, reg_previous)
        ELSE <<>>

RegId(id) == DecOf(root_id + 1) \o <<".">> \o DecOf(id + 1)

\* the branch "Normal registers in the address map"
normal_rows(id, reg) ==
    IF ~get_property(reg.unroll, FALSE) \/ ~reg.is_array
    THEN <<create_reg_list_info(
            [units |-> units,
             Offset |-> format_address(ShiftR(reg.raw_address_offset, elem_addr_bits)).val,
             Identifier |-> IF reg.is_array
                            THEN get_inst_name(reg) \o <<"[">>
                                 \o DecOf(reg.array_dimensions[1]) \o <<"]">>
                            ELSE get_inst_name(reg),
             Id |-> RegId(id),
             Name |-> get_inst_name(reg)], 0)>>
    ELSE [i \in 1..reg.array_dimensions[1] |->
            create_reg_list_info(
              [units |-> units,
               Offset |-> format_address(ShiftR(reg.raw_address_offset
                                                + (i - 1) * reg.array_stride,
                                                elem_addr_bits)).val,
               Identifier |-> get_inst_name(reg) \o <<"[">> \o DecOf(i - 1) \o <<"]">>,
               Id |-> RegId(id),
               Name |-> get_inst_name(reg)], 0)]

\* iteration_rows with the normal rows as one more elif of the chain
iteration_rows_mut_elif(id, regs) ==
    IF reserved_rows(id, regs) # <<>> THEN reserved_rows(id, regs)
    ELSE normal_rows(id, regs[id + 1])

\* iteration_rows with the reserved row placed after the register's rows
iteration_rows_mut_order(id, regs) == normal_rows(id, regs[id + 1]) \o reserved_rows(id, regs)

\* one iteration of the loop over node.registers()
iteration_rows(id, regs) == reserved_rows(id, regs) \o normal_rows(id, regs[id + 1])

Init ==
    /\ node \in Maps
    /\ root_id = 0
    /\ pc = "start"
    /\ reg_id = 0
    /\ address_width = 32
    /\ base_address = 0
    /\ elem_addr_bits = None
    /\ units = None
    /\ use_uppercase_inst_name = TRUE
    /\ calls = <<>>
    /\ fn = Idle
    /\ node_list = <<>>
    /\ kwargs = <<>>
    /\ pages = None
    /\ reverse = FALSE
    /\ exc = None
    /\ map_id = 0
    /\ export_id = 0
    /\ history = <<>>

\* create_regmap_list_setup that keeps the base address of the map before
\* when the map does not define one
create_regmap_list_setup_mut_stale ==
    /\ pc = "start"
    /\ address_width' = get_address_width(node)
    /\ base_address' = IF check_udp("base_address_p", node)
                       THEN get_property(node.udp["base_address_p"], 0) ELSE base_address
    /\ elem_addr_bits' = IF check_udp("addr_elem_size", node)
                         THEN Log2Floor(get_property(node.udp["addr_elem_size"], 0))
                         ELSE 0
    /\ units' = IF elem_addr_bits' = 0 THEN "bytes"
                ELSE "uint" \o ToString(Pow2(elem_addr_bits' + 3))
    /\ pc' = "info"
    /\ UNCHANGED export_vars
    /\ UNCHANGED <<node, root_id, reg_id, use_uppercase_inst_name, calls, fn>>

\* create_regmap_list_setup that keeps the address width of the map before
\* when the map does not define one
create_regmap_list_setup_mut_keep ==
    /\ pc = "start"
    /\ address_width' = IF check_udp("address_width_p", node)
                        THEN get_address_width(node) ELSE address_width
    /\ base_address' = get_property(node.udp["base_address_p"], 0)
    /\ elem_addr_bits' = IF check_udp("addr_elem_size", node)
                         THEN Log2Floor(get_property(node.udp["addr_elem_size"], 0))
                         ELSE 0
    /\ units' = IF elem_addr_bits' = 0 THEN "bytes"
                ELSE "uint" \o ToString(Pow2(elem_addr_bits' + 3))
    /\ pc' = "info"
    /\ UNCHANGED export_vars
    /\ UNCHANGED <<node, root_id, reg_id, use_uppercase_inst_name, calls, fn>>

\* create_regmap_list: set the required variables of the map
create_regmap_list_setup ==
    /\ pc = "start"
    /\ address_width' = get_address_width(node)
    /\ base_address' = get_property(node.udp["base_address_p"], 0)
    /\ elem_addr_bits' = IF check_udp("addr_elem_size", node)
                         THEN Log2Floor(get_property(node.udp["addr_elem_size"], 0))
                         ELSE 0
    /\ units' = IF elem_addr_bits' = 0 THEN "bytes"
                ELSE "uint" \o ToString(Pow2(elem_addr_bits' + 3))
    /\ pc' = "info"
    /\ UNCHANGED export_vars
    /\ UNCHANGED <<node, root_id, reg_id, use_uppercase_inst_name, calls, fn>>

\* create_regmap_list: the header of the map, create_addrmap_info
create_regmap_list_info ==
    /\ pc = "info"
    /\ calls' = Append(calls,
                  [op |-> "create_addrmap_info",
                   data |-> [units |-> units,
                             Name |-> DecOf(root_id + 1) \o <<" ">> \o node.name,
                             Base_address |-> get_base_address(node),
                             Size |-> get_addrmap_size(node)]])
    /\ pc' = "loop"
    /\ UNCHANGED export_vars
    /\ UNCHANGED <<node, root_id, reg_id, address_width, base_address, elem_addr_bits, units,
                   use_uppercase_inst_name, fn>>

\* one iteration of  for reg_id, reg in enumerate(node.registers())
create_regmap_list_iter ==
    /\ pc = "loop"
    /\ reg_id < MaxRegs
    /\ \E reg \in NextRegs(reg_id + 1, LastEnd(node.regs), node.size) :
          /\ node' = [node EXCEPT !.regs = Append(@, reg)]
          /\ calls' = calls \o iteration_rows(reg_id, Append(node.regs, reg))
    /\ reg_id' = reg_id + 1
    /\ UNCHANGED export_vars
    /\ UNCHANGED <<root_id, pc, address_width, base_address, elem_addr_bits, units,
                   use_uppercase_inst_name, fn>>

\* node.registers() is exhausted: dump_reg_list_info
create_regmap_list_end ==
    /\ pc = "loop"
    /\ calls' = Append(calls, [op |-> "dump_reg_list_info"])
    /\ pc' = "done"
    /\ UNCHANGED export_vars
    /\ UNCHANGED <<node, root_id, reg_id, address_width, base_address, elem_addr_bits, units,
                   use_uppercase_inst_name, fn>>

Next ==
    \/ create_regmap_list_setup
    \/ create_regmap_list_info
    \/ create_regmap_list_iter
    \/ create_regmap_list_end

Spec == Init /\ [][Next]_vars

----------------------------------------------------------------------------
(* The elaborated model handed to export: a tree of nodes. A RootNode has  *)
(* the top addrmap as its only child; an addrmap has registers and nested  *)
(* addrmaps as children; the fields of a register are no AddrmapNode and   *)
(* are kept in the register.                                               *)

MaxExports == 3

Field(name, lsb, width, reset) ==
    [kind |-> "field", inst_name |-> name, name |-> name, desc |-> <<>>,
     lsb |-> lsb, msb |-> lsb + width - 1, width |-> width, reset |-> reset,
     sw |-> "rw", onread |-> None, onwrite |-> None, encode |-> Absent]

Reg(k, off, sz, width, fields, access) ==
    [kind |-> "reg", inst_name |-> <<"r", "e", "g">> \o DecOf(k),
     name |-> <<"R">> \o DecOf(k), desc |-> <<"a", "\n", "b", " ", " ", "c">>,
     raw_address_offset |-> off, size |-> sz,
     is_array |-> FALSE, array_dimensions |-> <<>>, array_stride |-> sz, unroll |-> Absent,
     fields |-> fields, regwidth |-> width, udp |-> [regaccess_p |-> access]]

Addrmap(name, children, size, udp) ==
    [kind |-> "addrmap", inst_name |-> name, name |-> name, desc |-> <<>>,
     children |-> children, size |-> size, udp |-> udp]

RootNode(top) == [kind |-> "root", children |-> <<top>>]

Children(n) == IF n.kind \in {"root", "addrmap"} THEN n.children ELSE <<>>

\* node.descendants(in_post_order=True): the nodes below n, never n itself,
\* every node after the nodes below it
RECURSIVE descendants(_)
descendants(n) ==
    LET ch == Children(n)
        upto[k \in 0..Len(ch)] ==
            IF k = 0 THEN <<>> ELSE upto[k - 1] \o descendants(ch[k]) \o <<ch[k]>>
    IN  upto[Len(ch)]

\* the nodes of root.descendants(in_post_order=True) that pass
\* isinstance(node, AddrmapNode)
addrmaps(root) == SelectSeq(descendants(root), LAMBDA n : n.kind = "addrmap")

\* node.registers()
registers(n) == SelectSeq(n.children, LAMBDA c : c.kind = "reg")

----------------------------------------------------------------------------
(* create_regmap_registers_info: the detail pass over one map *)

get_name(n) == n.name

\* s.replace(old, " ") for a one-character old
ReplaceChar(s, old) == [k \in 1..Len(s) |-> IF s[k] = old THEN " " ELSE s[k]]

\* s.replace("  ", " "): non-overlapping pairs, from the left
RECURSIVE ReplaceDoubleSpace(_, _)
ReplaceDoubleSpace(s, k) ==
    IF k > Len(s) THEN <<>>
    ELSE IF k < Len(s) /\ s[k] = " " /\ s[k + 1] = " "
         THEN <<" ">> \o ReplaceDoubleSpace(s, k + 2)
    ELSE <<s[k]>> \o ReplaceDoubleSpace(s, k + 1)

\* PDFExporter.get_desc(node)
get_desc(n) == ReplaceDoubleSpace(ReplaceChar(n.desc, "\n"), 1)

\* PDFExporter.get_field_bits(field)
get_field_bits(field) ==
    IF field.msb # field.lsb
    THEN <<"[">> \o DecOf(field.msb) \o <<":">> \o DecOf(field.lsb) \o <<"]">>
    ELSE <<"[">> \o DecOf(field.msb) \o <<"]">>

\* PDFExporter.get_reg_absolute_address(node)
get_reg_absolute_address(n) ==
    format_address(ShiftR(base_address + n.raw_address_offset, elem_addr_bits)).val

\* PDFExporter.get_reg_offset(node)
get_reg_offset(n) == format_address(ShiftR(n.raw_address_offset, elem_addr_bits)).val

\* PDFExporter.get_reg_access(node)
get_reg_access(n) ==
    IF ~check_udp("regaccess_p", n) THEN "RW"
    ELSE get_property(n.udp["regaccess_p"], "RW")

\* PDFExporter.get_reg_size(node)
get_reg_size(n) == PyHex(ShiftR(total_size(n), elem_addr_bits))

\* the dict handed to create_fields_list_info for one field, or the
\* exception get_field_reset raises
fields_list_strg(field) ==
    LET reset == get_field_reset(field)
        ident == IF field.encode # Absent
                 THEN get_inst_name(field) \o <<"<", "b", "r", "/", ">">> \o field.encode[1].type_name
                 ELSE get_inst_name(field)
    IN  IF reset.exc # None THEN [exc |-> reset.exc]
        ELSE [exc |-> None,
              call |-> [op |-> "create_fields_list_info",
                        data |-> [Bits |-> get_field_bits(field),
                                  Identifier |-> ident,
                                  Access |-> get_field_access(field),
                                  Reset |-> reset.val,
                                  Name |-> get_name(field),
                                  Description |-> get_desc(field),
                                  encode |-> IF field.encode # Absent
                                             THEN Some(field.encode[1].members) ELSE Absent]]]

\* fields_list: reg.fields(), reversed when self.reverse
Reversed(q) == [k \in 1..Len(q) |-> q[Len(q) - k + 1]]
fields_list(reg) == IF reverse THEN Reversed(reg.fields) ELSE reg.fields

\* the loop over fields_list from field k on: the calls made, and the
\* exception that cut it short
RECURSIVE fields_loop(_, _)
fields_loop(fl, k) ==
    IF k > Len(fl) THEN [exc |-> None, calls |-> <<[op |-> "dump_field_list_info"]>>]
    ELSE LET one == fields_list_strg(fl[k])
         IN  IF one.exc # None THEN [exc |-> one.exc, calls |-> <<>>]
             ELSE LET rest == fields_loop(fl, k + 1)
                  IN  [exc |-> rest.exc, calls |-> <<one.call>> \o rest.calls]

\* one iteration of the loop of create_regmap_registers_info: the calls
\* made for register id (counted from 0), and the exception that ended it
register_info(id, reg) ==
    LET reset == get_reg_reset(reg)
        registers_strg ==
            [units |-> units,
             Name |-> DecOf(root_id + 1) \o <<".">> \o DecOf(id + 1) \o <<" ">> \o get_inst_name(reg),
             Desc1 |-> get_name(reg),
             Desc2 |-> get_desc(reg),
             Absolute_address |-> get_reg_absolute_address(reg),
             Base_offset |-> get_reg_offset(reg),
             Reset |-> reset.val,
             Access |-> get_reg_access(reg),
             Size |-> get_reg_size(reg)]
    IN  IF reset.exc # None THEN [exc |-> reset.exc, calls |-> <<>>]
        ELSE LET fl == fields_loop(fields_list(reg), 1)
             IN  [exc |-> fl.exc,
                  calls |-> <<[op |-> "create_register_info", data |-> registers_strg]>>
                            \o fl.calls]

----------------------------------------------------------------------------
(* export and generate_output_pdf: one exporter object, called up to       *)
(* MaxExports times                                                        *)

NoUdp == MkUdp(Absent, Absent, Absent)

FieldA == Field(<<"a">>, 0, 4, Some(5))
FieldB == Field(<<"b">>, 4, 4, Some(10))

MapLeaf == Addrmap(<<"l", "e", "a", "f">>, <<>>, 8, NoUdp)
MapTop  == Addrmap(<<"t", "o", "p">>, <<MapLeaf>>, 16, MkUdp(Some(16), Some(4), Some(64)))
MapRegs == Addrmap(<<"r", "e", "g", "s">>,
                   <<Reg(1, 4, 1, Some(8), <<FieldA, FieldB>>, Absent)>>, 8, NoUdp)
MapNoWidth == Addrmap(<<"n", "o", "w">>,
                      <<Reg(1, 0, 1, Absent, <<FieldA>>, Some("RO"))>>, 8, NoUdp)

\* a map with an address width of 16, elements of 4 bytes and the base
\* address 64, holding a nested map without properties and one register
MapBased == Addrmap(<<"b", "a", "s", "e", "d">>,
                    <<MapLeaf, Reg(1, 8, 4, Some(32), <<FieldA>>, Absent)>>, 16,
                    MkUdp(Some(16), Some(4), Some(64)))

NoKwargs == <<>>

\* the (node_list, kwargs) pairs export is called with
ExportInputs == <<
    [node_list |-> <<>>, kwargs |-> NoKwargs],
    [node_list |-> <<RootNode(MapTop)>>, kwargs |-> NoKwargs],
    [node_list |-> <<RootNode(MapTop), RootNode(MapRegs)>>,
     kwargs |-> [onFirstPage |-> "cb", use_uppercase_inst_name |-> FALSE]],
    [node_list |-> <<MapTop>>, kwargs |-> NoKwargs],
    [node_list |-> <<RootNode(MapNoWidth)>>, kwargs |-> NoKwargs],
    [node_list |-> <<RootNode(MapTop)>>, kwargs |-> [bogus |-> 1]],
    [node_list |-> <<RootNode(MapRegs)>>, kwargs |-> [field_display_order |-> "msb-first"]],
    [node_list |-> <<RootNode(MapLeaf), RootNode(MapTop)>>, kwargs |-> NoKwargs],
    [node_list |-> <<RootNode(MapBased)>>, kwargs |-> NoKwargs] >>

\* kwargs.pop(key, default): the value, and the dict without the key
Pop(kw, key, default) == IF key \in DOMAIN kw THEN kw[key] ELSE default
Without(kw, keys) == [k \in (DOMAIN kw) \ keys |-> kw[k]]

ExportInit ==
    /\ node = None
    /\ root_id = 0
    /\ pc = "idle"
    /\ reg_id = 0
    /\ address_width = 32
    /\ base_address = 0
    /\ elem_addr_bits = None
    /\ units = None
    /\ use_uppercase_inst_name = TRUE
    /\ calls = <<>>
    /\ fn = Idle
    /\ node_list = <<>>
    /\ kwargs = NoKwargs
    /\ pages = None
    /\ reverse = FALSE
    /\ exc = None
    /\ map_id = 0
    /\ export_id = 0
    /\ history = <<>>

\* what the export that ends now leaves in the history
Ended(id, cs, e) == Append(history, [id |-> id, calls |-> cs, exc |-> e])

\* export with the PDFCreator created before the check for stray keywords
export_mut_latecheck ==
    /\ pc \in {"idle", "done", "failed"}
    /\ Len(history) < MaxExports
    /\ \E id \in 1..Len(ExportInputs) :
        LET kw           == ExportInputs[id].kwargs
            onFirstPage  == Pop(kw, "onFirstPage", None)
            onLaterPages == Pop(kw, "onLaterPages", None)
            given        == {k \in {"onFirstPage", "onLaterPages"} : Pop(kw, k, None) # None}
            stray        == Without(kw, {"onFirstPage", "onLaterPages", "use_uppercase_inst_name"})
        IN  /\ export_id' = id
            /\ node_list' = ExportInputs[id].node_list
            /\ pages' = [k \in given |-> kw[k]]
            /\ use_uppercase_inst_name' = Pop(kw, "use_uppercase_inst_name", TRUE)
            /\ kwargs' = stray
            /\ IF DOMAIN stray # {}
               THEN /\ exc' = "TypeError"
                    /\ pc' = "failed"
                    /\ calls' = <<[op |-> "PDFCreator", pages |-> pages']>>
                    /\ history' = Ended(id, calls', "TypeError")
               ELSE /\ exc' = None
                    /\ pc' = "roots"
                    /\ calls' = <<[op |-> "PDFCreator", pages |-> pages']>>
                    /\ history' = history
    /\ root_id' = 0
    /\ map_id' = 0
    /\ reg_id' = 0
    /\ UNCHANGED <<node, address_width, base_address, elem_addr_bits, units, reverse, fn>>

\* export(node_list, path, **kwargs) up to the creation of the PDFCreator
\* in generate_output_pdf, or up to the TypeError for a stray keyword
export ==
    /\ pc \in {"idle", "done", "failed"}
    /\ Len(history) < MaxExports
    /\ \E id \in 1..Len(ExportInputs) :
        LET kw           == ExportInputs[id].kwargs
            onFirstPage  == Pop(kw, "onFirstPage", None)
            onLaterPages == Pop(kw, "onLaterPages", None)
            given        == {k \in {"onFirstPage", "onLaterPages"} : Pop(kw, k, None) # None}
            stray        == Without(kw, {"onFirstPage", "onLaterPages", "use_uppercase_inst_name"})
        IN  /\ export_id' = id
            /\ node_list' = ExportInputs[id].node_list
            /\ pages' = [k \in given |-> kw[k]]
            /\ use_uppercase_inst_name' = Pop(kw, "use_uppercase_inst_name", TRUE)
            /\ kwargs' = stray
            /\ IF DOMAIN stray # {}
               THEN /\ exc' = "TypeError"
                    /\ pc' = "failed"
                    /\ calls' = <<>>
                    /\ history' = Ended(id, <<>>, "TypeError")
               ELSE /\ exc' = None
                    /\ pc' = "roots"
                    /\ calls' = <<[op |-> "PDFCreator", pages |-> pages']>>
                    /\ history' = history
    /\ root_id' = 0
    /\ map_id' = 0
    /\ reg_id' = 0
    /\ UNCHANGED <<node, address_width, base_address, elem_addr_bits, units, reverse, fn>>

\* generate_output_pdf: the next AddrmapNode of root.descendants()
generate_output_pdf_map ==
    /\ pc = "roots"
    /\ root_id < Len(node_list)
    /\ map_id < Len(addrmaps(node_list[root_id + 1]))
    /\ node' = addrmaps(node_list[root_id + 1])[map_id + 1]
    /\ pc' = "start"
    /\ reg_id' = 0
    /\ UNCHANGED <<root_id, address_width, base_address, elem_addr_bits, units,
                   use_uppercase_inst_name, calls, fn, node_list, kwargs, pages, reverse, exc,
                   map_id, export_id, history>>

\* create_regmap_list: one iteration of the loop over node.registers()
create_regmap_list_reg ==
    /\ pc = "loop"
    /\ reg_id < Len(registers(node))
    /\ calls' = calls \o iteration_rows(reg_id, registers(node))
    /\ reg_id' = reg_id + 1
    /\ UNCHANGED <<node, root_id, pc, address_width, base_address, elem_addr_bits, units,
                   use_uppercase_inst_name, fn>>
    /\ UNCHANGED export_vars

\* create_regmap_list: dump_reg_list_info after the loop, and the return to
\* generate_output_pdf, which calls create_regmap_registers_info
create_regmap_list_dump ==
    /\ pc = "loop"
    /\ reg_id = Len(registers(node))
    /\ calls' = Append(calls, [op |-> "dump_reg_list_info"])
    /\ pc' = "detail"
    /\ reg_id' = 0
    /\ UNCHANGED <<node, root_id, address_width, base_address, elem_addr_bits, units,
                   use_uppercase_inst_name, fn>>
    /\ UNCHANGED export_vars

\* create_regmap_registers_info_reg with the document finalized when an
\* exception leaves export
create_regmap_registers_info_reg_mut_finally ==
    /\ pc = "detail"
    /\ reg_id < Len(registers(node))
    /\ LET r == register_info(reg_id, registers(node)[reg_id + 1])
       IN  /\ calls' = IF r.exc # None
                       THEN Append(calls \o r.calls, [op |-> "build_document"])
                       ELSE calls \o r.calls
           /\ exc' = r.exc
           /\ IF r.exc # None
              THEN /\ pc' = "failed"
                   /\ reg_id' = reg_id
                   /\ history' = Ended(export_id, calls', r.exc)
              ELSE /\ pc' = "detail"
                   /\ reg_id' = reg_id + 1
                   /\ history' = history
    /\ UNCHANGED <<node, root_id, address_width, base_address, elem_addr_bits, units,
                   use_uppercase_inst_name, fn, node_list, kwargs, pages, reverse, map_id,
                   export_id>>

\* create_regmap_registers_info: one iteration of the loop over
\* node.registers(); an exception leaves export
create_regmap_registers_info_reg ==
    /\ pc = "detail"
    /\ reg_id < Len(registers(node))
    /\ LET r == register_info(reg_id, registers(node)[reg_id + 1])
       IN  /\ calls' = calls \o r.calls
           /\ exc' = r.exc
           /\ IF r.exc # None
              THEN /\ pc' = "failed"
                   /\ reg_id' = reg_id
                   /\ history' = Ended(export_id, calls', r.exc)
              ELSE /\ pc' = "detail"
                   /\ reg_id' = reg_id + 1
                   /\ history' = history
    /\ UNCHANGED <<node, root_id, address_width, base_address, elem_addr_bits, units,
                   use_uppercase_inst_name, fn, node_list, kwargs, pages, reverse, map_id,
                   export_id>>

\* create_regmap_registers_info returns: the map is done
create_regmap_registers_info_end ==
    /\ pc = "detail"
    /\ reg_id = Len(registers(node))
    /\ pc' = "roots"
    /\ map_id' = map_id + 1
    /\ UNCHANGED <<node, root_id, reg_id, address_width, base_address, elem_addr_bits, units,
                   use_uppercase_inst_name, calls, fn, node_list, kwargs, pages, reverse, exc,
                   export_id, history>>

\* generate_output_pdf: the descendants of the root are exhausted,
\* build_document, next root
generate_output_pdf_build ==
    /\ pc = "roots"
    /\ root_id < Len(node_list)
    /\ map_id = Len(addrmaps(node_list[root_id + 1]))
    /\ calls' = Append(calls, [op |-> "build_document"])
    /\ root_id' = root_id + 1
    /\ map_id' = 0
    /\ UNCHANGED <<node, pc, reg_id, address_width, base_address, elem_addr_bits, units,
                   use_uppercase_inst_name, fn, node_list, kwargs, pages, reverse, exc,
                   export_id, history>>

\* generate_output_pdf and export return
generate_output_pdf_return ==
    /\ pc = "roots"
    /\ root_id = Len(node_list)
    /\ pc' = "done"
    /\ history' = Ended(export_id, calls, None)
    /\ UNCHANGED <<node, root_id, reg_id, address_width, base_address, elem_addr_bits, units,
                   use_uppercase_inst_name, calls, fn, node_list, kwargs, pages, reverse, exc,
                   map_id, export_id>>

ExportNext ==
    \/ export
    \/ generate_output_pdf_map
    \/ create_regmap_list_setup
    \/ create_regmap_list_info
    \/ create_regmap_list_reg
    \/ create_regmap_list_dump
    \/ create_regmap_registers_info_reg
    \/ create_regmap_registers_info_end
    \/ generate_output_pdf_build
    \/ generate_output_pdf_return

ExportSpec == ExportInit /\ [][ExportNext]_vars

----------------------------------------------------------------------------
(* Reading the summary rows back from the calls the backend received *)

Rows == SelectSeq(calls, LAMBDA c : c.op = "create_reg_list_info")

InSummary == pc \in {"loop", "done"}

IsUnrolled(reg) == reg.is_array /\ get_property(reg.unroll, FALSE)

\* One row read back: reserved or not; "X through Y" or a single address;
\* the displayed start lo and, for a range, the displayed end hi; for a
\* normal row the register it is about, counted from 1 (the part of Id after
\* "."), and the number of bytes it stands for.
Decode(r) ==
    LET sp  == IndexOf(r.data.Offset, " ")
        loT == IF sp # 0 THEN SubSeq(r.data.Offset, 1, sp - 1) ELSE r.data.Offset
        hiT == IF sp # 0 THEN SubSeq(r.data.Offset, sp + Len(Through), Len(r.data.Offset))
               ELSE r.data.Offset
        k   == IF r.reserved = 1 THEN 0
               ELSE ParseDec(SubSeq(r.data.Id, IndexOf(r.data.Id, ".") + 1, Len(r.data.Id)))
    IN  [reserved |-> r.reserved = 1,
         range    |-> sp # 0,
         lo       |-> NumberValue(loT),
         hi       |-> NumberValue(hiT),
         dash     |-> r.data.Identifier = Dash,
         reg      |-> k,
         bytes    |-> IF k = 0 THEN 0
                      ELSE IF IsUnrolled(node.regs[k]) THEN node.regs[k].size
                      ELSE total_size(node.regs[k])]

\* the summary table so far
Summary == LET rows == Rows IN [j \in 1..Len(rows) |-> Decode(rows[j])]

\* in the table d: the rows of register k, the reserved rows right before them
RegRows(d, k) == {j \in 1..Len(d) : ~d[j].reserved /\ d[j].reg = k}
FirstRow(d, k) == CHOOSE j \in RegRows(d, k) : \A i \in RegRows(d, k) : j <= i
LastRow(d, k)  == CHOOSE j \in RegRows(d, k) : \A i \in RegRows(d, k) : j >= i
ReservedBefore(d, k) ==
    LET f == FirstRow(d, k)
    IN  {j \in 1..(f - 1) : \A i \in j..(f - 1) : d[i].reserved}

\* the bytes a row stands for: a register row its register (or element), a
\* range its addresses, a single reserved address the slot up to the next row
FirstByte(d, j) == ShiftL(d[j].lo, elem_addr_bits)
LastByte(d, j) ==
    IF ~d[j].reserved THEN FirstByte(d, j) + d[j].bytes - 1
    ELSE IF d[j].range THEN ShiftL(d[j].hi + 1, elem_addr_bits) - 1
    ELSE IF j < Len(d) THEN FirstByte(d, j + 1) - 1
    ELSE FirstByte(d, j)

\* every register starts and ends on a multiple of the element size
ElementAligned ==
    \A k \in 1..Len(node.regs) :
        /\ node.regs[k].raw_address_offset % Pow2(elem_addr_bits) = 0
        /\ node.regs[k].size % Pow2(elem_addr_bits) = 0

PrevEnd(k) == RegEnd(node.regs[k - 1])

SingleSlotBefore(k) ==
    k > 1 /\ node.regs[k - 1].raw_address_offset + 2 * total_size(node.regs[k - 1])
             = node.regs[k].raw_address_offset

RangeGapBefore(k) ==
    k > 1 /\ ~SingleSlotBefore(k) /\ PrevEnd(k) < node.regs[k].raw_address_offset

----------------------------------------------------------------------------
(* C1: in a byte-addressed map the summary rows cover every address from 0 *)
(* up to the end of the last register exactly once.                        *)
C1_CoversEveryAddressOnce ==
    (pc = "done" /\ elem_addr_bits = 0) =>
        LET d     == Summary
            first == [j \in 1..Len(d) |-> FirstByte(d, j)]
            last  == [j \in 1..Len(d) |-> LastByte(d, j)]
        IN  \A a \in 0..(LastEnd(node.regs) - 1) :
                Cardinality({j \in 1..Len(d) : first[j] <= a /\ a <= last[j]}) = 1

StrictlyAscending(d) == \A j \in 1..(Len(d) - 1) : d[j].lo < d[j + 1].lo

\* no reserved row shares an address with another row
NoReservedOverlap(d) ==
    LET first == [j \in 1..Len(d) |-> FirstByte(d, j)]
        last  == [j \in 1..Len(d) |-> LastByte(d, j)]
    IN  \A i \in 1..Len(d) : \A j \in 1..Len(d) :
            (i # j /\ d[i].reserved) =>
                ~(\E a \in first[i]..last[i] : first[j] <= a /\ a <= last[j])

(* C2 as stated: for any element granularity the rows have strictly        *)
(* ascending displayed start offsets, and a reserved row overlaps neither  *)
(* a register row nor another reserved row.                                *)
C2_Original ==
    InSummary => LET d == Summary IN StrictlyAscending(d) /\ NoReservedOverlap(d)

(* C2 amended: the same, for maps whose registers all start on and span a  *)
(* multiple of the element size.                                           *)
C2_AscendingNoOverlap ==
    (InSummary /\ ElementAligned) =>
        LET d == Summary IN StrictlyAscending(d) /\ NoReservedOverlap(d)

C2_Witness ==
    /\ pc = "done"
    /\ elem_addr_bits = 1
    /\ ElementAligned
    /\ Len(node.regs) = 2
    /\ LET d == Summary
       IN  \E j \in 1..Len(d) : d[j].reserved /\ d[j].range /\ d[j].lo <= d[j].hi

(* C3: a gap that is not the single-slot pattern gets exactly one reserved *)
(* row "X through Y", X the end of the previous register and Y + 1 the     *)
(* greatest multiple of the current register's size not above its offset   *)
(* (byte-addressed maps).                                                  *)
C3_RangeEndsAtSizeBoundary ==
    (InSummary /\ elem_addr_bits = 0) =>
        LET d == Summary
        IN  \A k \in 1..Len(node.regs) :
                RangeGapBefore(k) =>
                    /\ Cardinality(ReservedBefore(d, k)) = 1
                    /\ \A j \in ReservedBefore(d, k) :
                          /\ d[j].range
                          /\ d[j].lo = PrevEnd(k)
                          /\ d[j].hi + 1
                                = (node.regs[k].raw_address_offset
                                     \div total_size(node.regs[k]))
                                  * total_size(node.regs[k])

(* C4: a register at prev_offset + 2 * prev_size gets exactly one reserved *)
(* row, a single address, the end of the previous register in element      *)
(* units, placed right after the previous register's rows and right before *)
(* its own.                                                                *)
C4_SingleSlotRow ==
    InSummary =>
        LET d == Summary
        IN  \A k \in 1..Len(node.regs) :
                SingleSlotBefore(k) =>
                    LET f == FirstRow(d, k)
                    IN  /\ ReservedBefore(d, k) = {f - 1}
                        /\ LastRow(d, k - 1) = f - 2
                        /\ ~d[f - 1].range
                        /\ d[f - 1].lo = ShiftR(PrevEnd(k), elem_addr_bits)
                        /\ d[f - 1].dash

C4_Witness ==
    /\ pc = "done"
    /\ elem_addr_bits = 0
    /\ Len(node.regs) = 2
    /\ node.regs[1].raw_address_offset = 0 /\ total_size(node.regs[1]) = 4
    /\ node.regs[2].raw_address_offset = 8 /\ total_size(node.regs[2]) = 4
    /\ LET d == Summary
       IN  /\ Len(d) = 3
           /\ d[1].lo = 0 /\ ~d[1].reserved
           /\ d[2].lo = 4 /\ d[2].reserved /\ ~d[2].range
           /\ d[3].lo = 8 /\ ~d[3].reserved

(* C5: the first register is preceded by a reserved row if and only if its *)
(* raw offset is not 0; the row is the only one before it and spans 0      *)
(* through (first_offset >> granularity) - 1.                              *)
C5_LeadingReservedRow ==
    (InSummary /\ node.regs # <<>>) =>
        LET d == Summary
        IN  IF node.regs[1].raw_address_offset # 0
            THEN /\ FirstRow(d, 1) = 2
                 /\ d[1].reserved
                 /\ d[1].range
                 /\ d[1].lo = 0
                 /\ d[1].hi = ShiftR(node.regs[1].raw_address_offset, elem_addr_bits) - 1
            ELSE FirstRow(d, 1) = 1

C5_Witness ==
    /\ pc = "done"
    /\ elem_addr_bits = 0
    /\ node.regs # <<>>
    /\ node.regs[1].raw_address_offset = 8
    /\ LET d == Summary
       IN  /\ d[1].reserved /\ d[1].range
           /\ d[1].lo = 0 /\ d[1].hi = 7
           /\ ~d[2].reserved /\ d[2].lo = 8

DumpCount == Len(SelectSeq(calls, LAMBDA c : c.op = "dump_reg_list_info"))

(* C6: the last row of a summary is never a reserved row, whatever lies    *)
(* between the last register and the end of the map; a map without         *)
(* registers has no rows; the table is closed by one dump_reg_list_info.   *)
C6_NoTrailingReservedRow ==
    InSummary =>
        LET rows == Rows
        IN  /\ rows # <<>> => rows[Len(rows)].reserved = 0
            /\ node.regs = <<>> => rows = <<>>
            /\ DumpCount = (IF pc = "done" THEN 1 ELSE 0)
            /\ pc = "done" => calls[Len(calls)].op = "dump_reg_list_info"

C6_Witness ==
    /\ pc = "done"
    /\ node.regs # <<>>
    /\ LastEnd(node.regs) < node.size
    /\ Rows[Len(Rows)].reserved = 0
    /\ LET d == Summary IN LastByte(d, Len(d)) < node.size - 1

----------------------------------------------------------------------------
(* The decision table of the access mnemonics, as the specification lists  *)
(* it: software access, on-read effect, on-write effect, mnemonic.          *)
(* AnyEffect                                                               *)
(* stands for a column left open. The write-only row "none" is a row on    *)
(* the on-write effect. The fallback rows are not part of the list.        *)

AnyEffect == "-"

AccessTable == <<
    [sw |-> "rw",  rd |-> None,   wr |-> None,    m |-> "RW"],
    [sw |-> "rw",  rd |-> "rclr", wr |-> "woset", m |-> "W1SRC"],
    [sw |-> "rw",  rd |-> "rclr", wr |-> "wzs",   m |-> "W0SRC"],
    [sw |-> "rw",  rd |-> "rclr", wr |-> "wset",  m |-> "WSRC"],
    [sw |-> "rw",  rd |-> "rset", wr |-> "woclr", m |-> "W1CRS"],
    [sw |-> "rw",  rd |-> "rset", wr |-> "wzc",   m |-> "W0CRS"],
    [sw |-> "rw",  rd |-> "rset", wr |-> "wclr",  m |-> "WCRS"],
    [sw |-> "rw",  rd |-> AnyEffect,    wr |-> "woclr", m |-> "RW1C"],
    [sw |-> "rw",  rd |-> AnyEffect,    wr |-> "woset", m |-> "RW1S"],
    [sw |-> "rw",  rd |-> AnyEffect,    wr |-> "wot",   m |-> "RW1T"],
    [sw |-> "rw",  rd |-> AnyEffect,    wr |-> "wzc",   m |-> "RW0C"],
    [sw |-> "rw",  rd |-> AnyEffect,    wr |-> "wzs",   m |-> "RW0S"],
    [sw |-> "rw",  rd |-> AnyEffect,    wr |-> "wzt",   m |-> "RW0T"],
    [sw |-> "rw",  rd |-> AnyEffect,    wr |-> "wclr",  m |-> "RWC"],
    [sw |-> "rw",  rd |-> AnyEffect,    wr |-> "wset",  m |-> "RWS"],
    [sw |-> "rw",  rd |-> "rclr", wr |-> AnyEffect,     m |-> "WRC"],
    [sw |-> "rw",  rd |-> "rset", wr |-> AnyEffect,     m |-> "WRS"],
    [sw |-> "r",   rd |-> None,   wr |-> AnyEffect,     m |-> "RO"],
    [sw |-> "r",   rd |-> "rclr", wr |-> AnyEffect,     m |-> "RC"],
    [sw |-> "r",   rd |-> "rset", wr |-> AnyEffect,     m |-> "RS"],
    [sw |-> "w",   rd |-> AnyEffect,    wr |-> None,    m |-> "WO"],
    [sw |-> "w",   rd |-> AnyEffect,    wr |-> "wclr",  m |-> "WOC"],
    [sw |-> "w",   rd |-> AnyEffect,    wr |-> "wset",  m |-> "WOS"],
    [sw |-> "rw1", rd |-> AnyEffect,    wr |-> AnyEffect,     m |-> "W1"],
    [sw |-> "w1",  rd |-> AnyEffect,    wr |-> AnyEffect,     m |-> "WO1"] >>

\* the same table with the two rows marked "(only)" read as rows without an
\* on-read effect
AccessTableOnly ==
    [k \in 1..Len(AccessTable) |->
        IF AccessTable[k].m \in {"RW1C", "RW1S"}
        THEN [AccessTable[k] EXCEPT !.rd = None]
        ELSE AccessTable[k]]

RowMatches(r, f) ==
    /\ r.sw = f.sw
    /\ r.rd = AnyEffect \/ r.rd = f.onread
    /\ r.wr = AnyEffect \/ r.wr = f.onwrite

MatchingRows(t, f) == {k \in 1..Len(t) : RowMatches(t[k], f)}

FirstMatch(t, f) == CHOOSE k \in MatchingRows(t, f) : \A j \in MatchingRows(t, f) : k <= j

\* a triple the table lists: a row matches it, or its software access is
\* none of the five the table names (the NOACCESS row)
Listed(t, f) == MatchingRows(t, f) # {} \/ f.sw \notin {"rw", "r", "w", "rw1", "w1"}

TableMnemonic(t, f) == IF MatchingRows(t, f) # {} THEN t[FirstMatch(t, f)].m ELSE "NOACCESS"

DefaultMnemonic(sw) == IF sw = "rw" THEN "RW" ELSE IF sw = "r" THEN "RO" ELSE "WO"

IsAccessCall == fn.op \in {"get_field_access", "get_field_access_legacy"}

----------------------------------------------------------------------------
(* C7: for every triple the decision table lists, both variants of         *)
(* get_field_access return the mnemonic of the first row that matches.     *)
C7_AccessTable ==
    (IsAccessCall /\ Listed(AccessTable, fn.field))
        => fn.ret = TableMnemonic(AccessTable, fn.field)

C7_Witness ==
    /\ fn.op = "get_field_access"
    /\ fn.field = [sw |-> "rw", onread |-> "rclr", onwrite |-> "woset"]
    /\ fn.ret = "W1SRC"

(* C8 as stated: every combination the table does not list explicitly,     *)
(* among them read-write with clear-on-read and one-clears-on-write,       *)
(* yields the plain default of its software access.                        *)
C8_Original ==
    (IsAccessCall /\ fn.field.sw \in {"rw", "r", "w"} /\ ~Listed(AccessTableOnly, fn.field))
        => fn.ret = DefaultMnemonic(fn.field.sw)

(* C8 amended: every read-write, read-only or write-only combination that  *)
(* no row of the table matches, an open column matching any effect, yields *)
(* RW, RO or WO; get_field_access returns a mnemonic for every input.      *)
C8_Fallback ==
    IsAccessCall =>
        /\ fn.ret # None
        /\ (fn.field.sw \in {"rw", "r", "w"} /\ ~Listed(AccessTable, fn.field))
              => fn.ret = DefaultMnemonic(fn.field.sw)

C8_Witness ==
    /\ fn.op = "get_field_access"
    /\ fn.field = [sw |-> "w", onread |-> "rclr", onwrite |-> "woset"]
    /\ ~Listed(AccessTable, fn.field)
    /\ fn.ret = "WO"

(* C9: format_number(v, w) for 0 <= v < 2^w returns "<w>'h" followed by    *)
(* exactly ceil(w/4) upper-case hex digits in groups of 4 from the right,  *)
(* whatever the configured address width is.                               *)
C9_DigitsFollowWidth ==
    (fn.op = "format_number" /\ (fn.width >= 31 \/ fn.address < Pow2(fn.width))) =>
        /\ fn.ret.exc = None
        /\ WidthPrefix(fn.ret.val) = DecOf(fn.width)
        /\ GroupedBy4(HexBody(fn.ret.val))
        /\ CountDigits(HexBody(fn.ret.val)) = (fn.width + 3) \div 4

(* C10: format_number(v, w) succeeds for an int and for a str width, its   *)
(* prefix is w and its digits parse back to v.                             *)
C10_RoundTrip ==
    fn.op = "format_number" =>
        /\ fn.ret.exc = None
        /\ WidthPrefix(fn.ret.val) = DecOf(fn.width)
        /\ NumberValue(fn.ret.val) = fn.address

----------------------------------------------------------------------------
\* bit k of the int v >= 0
BitOf(v, k) == (v \div Pow2(k)) % 2

\* the value whose bit k is set exactly when some field has bit k - lsb of
\* its reset value set
FieldsOr(reg, nbits) ==
    LET bit(k) == IF \E j \in 1..Len(reg.fields) :
                        /\ k >= reg.fields[j].lsb
                        /\ BitOf(get_property(reg.fields[j].reset, 0), k - reg.fields[j].lsb) = 1
                  THEN 1 ELSE 0
        sum[k \in 0..nbits] == IF k = nbits THEN 0 ELSE bit(k) + 2 * sum[k + 1]
    IN  sum[0]

ExampleReg == [fields |-> <<FieldAt(0, 4, Some(5)), FieldAt(4, 4, Some(10))>>, regwidth |-> Some(8)]

(* C11: get_reg_reset, in both variants, returns for a register with a     *)
(* width the bitwise OR of its fields' reset values (0 without a reset)    *)
(* shifted to their lsb, prefixed with the register's width; width 8 with  *)
(* A [3:0] = 0x5 and B [7:4] = 0xA gives 8'h00_A5.                         *)
C11_RegResetIsFieldOr ==
    (fn.op \in {"get_reg_reset", "get_reg_reset_legacy"} /\ fn.reg.regwidth # Absent) =>
        /\ fn.ret.exc = None
        /\ WidthPrefix(fn.ret.val) = DecOf(fn.reg.regwidth[1])
        /\ NumberValue(fn.ret.val) = FieldsOr(fn.reg, 8)
        /\ fn.reg = ExampleReg => fn.ret.val = <<"8", "'", "h", "0", "0", "_", "A", "5">>

----------------------------------------------------------------------------
(* Reading an export back from the calls the backend received *)

ExportEnded == pc \in {"done", "failed"}

\* the options were accepted and the PDFCreator exists
DocumentCreated == calls # <<>>

Ops(cs) == [k \in 1..Len(cs) |-> cs[k].op]
Count(cs, op) == Cardinality({k \in 1..Len(cs) : cs[k].op = op})

RECURSIVE Flatten(_)
Flatten(qs) == IF qs = <<>> THEN <<>> ELSE Head(qs) \o Flatten(Tail(qs))

IsPrefix(a, b) == Len(a) <= Len(b) /\ SubSeq(b, 1, Len(a)) = a

\* the table calls one register, one map, one model must get, the rows of
\* the summary table left out
RegSkeleton(reg) ==
    <<"create_register_info">> \o [k \in 1..Len(reg.fields) |-> "create_fields_list_info"]
                               \o <<"dump_field_list_info">>
MapSkeleton(m) ==
    <<"create_addrmap_info", "dump_reg_list_info">>
    \o Flatten([k \in 1..Len(registers(m)) |-> RegSkeleton(registers(m)[k])])
ExpectedSkeleton(nl, MapsOf(_)) ==
    Flatten([r \in 1..Len(nl) |->
                Flatten([k \in 1..Len(MapsOf(nl[r])) |-> MapSkeleton(MapsOf(nl[r])[k])])])

Skeleton(cs) ==
    SelectSeq(Ops(cs), LAMBDA o : o \notin {"PDFCreator", "build_document", "create_reg_list_info"})

\* a summary row follows the header of its table or another row of it
RowsInsideTable(cs) ==
    \A k \in 1..Len(cs) :
        cs[k].op = "create_reg_list_info" =>
            k > 1 /\ cs[k - 1].op \in {"create_addrmap_info", "create_reg_list_info"}

AllRegs(nl) ==
    Flatten([r \in 1..Len(nl) |->
                Flatten([k \in 1..Len(addrmaps(nl[r])) |-> registers(addrmaps(nl[r])[k])])])

WidthsDefined(nl) == \A k \in 1..Len(AllRegs(nl)) : AllRegs(nl)[k].regwidth # Absent

(* C12: a successful export, of zero, one or several top-level nodes,     *)
(* calls build_document exactly once, after every pass of every map.       *)
C12_BuildDocumentOnce ==
    pc = "done" =>
        /\ Count(calls, "build_document") = 1
        /\ calls[Len(calls)].op = "build_document"

(* C13: per map create_addrmap_info, its rows, one dump_reg_list_info,     *)
(* then per register create_register_info, one create_fields_list_info per *)
(* field and one dump_field_list_info; no row after the dump of its table. *)
C13_TableProtocol ==
    /\ RowsInsideTable(calls)
    /\ IsPrefix(Skeleton(calls), ExpectedSkeleton(node_list, addrmaps))
    /\ (ExportEnded /\ DocumentCreated /\ WidthsDefined(node_list))
          => Skeleton(calls) = ExpectedSkeleton(node_list, addrmaps)

\* every map of the model below and including a top node, nested maps first
AllMaps(top) == addrmaps(top) \o (IF top.kind = "addrmap" THEN <<top>> ELSE <<>>)

MapHeaders(cs) == SelectSeq(cs, LAMBDA c : c.op = "create_addrmap_info")

ExpectedMapNames(nl) ==
    Flatten([r \in 1..Len(nl) |->
                [k \in 1..Len(AllMaps(nl[r])) |->
                    DecOf(r) \o <<" ">> \o get_name(AllMaps(nl[r])[k])]])

(* C14: a completed export has processed every map of the model once, the  *)
(* top node too when it is a map, nested maps before the map that contains *)
(* them, each map's summary pass followed by its own detail pass.          *)
C14_EveryMapOncePostOrder ==
    pc = "done" =>
        /\ [k \in 1..Len(MapHeaders(calls)) |-> MapHeaders(calls)[k].data.Name]
              = ExpectedMapNames(node_list)
        /\ Skeleton(calls) = ExpectedSkeleton(node_list, AllMaps)

C16_NoBuildOnError ==
    pc = "failed" => Count(calls, "build_document") = 0

(* C17: an export called with an option key it does not recognize raises   *)
(* TypeError before the document is created, before any node is traversed  *)
(* and before any backend call; only the stored options are touched.       *)
C17_StrayOptionAbortsFirst ==
    [][(pc' = "failed" /\ DOMAIN kwargs' # {}) =>
          /\ exc' = "TypeError"
          /\ calls' = <<>>
          /\ UNCHANGED <<node, address_width, base_address, elem_addr_bits, units, reverse>>]_vars

C17_Witness ==
    /\ pc = "failed"
    /\ "bogus" \in DOMAIN kwargs
    /\ calls = <<>>
    /\ Len(history) = 2
    /\ history[1].exc = None
    /\ address_width = 16

\* the header names of the registers of the model that have no width
WidthlessHeaders(nl) ==
    UNION { UNION { { DecOf(r) \o <<".">> \o DecOf(k) \o <<" ">>
                        \o get_inst_name(registers(addrmaps(nl[r])[m])[k])
                      : k \in {j \in 1..Len(registers(addrmaps(nl[r])[m])) :
                                 registers(addrmaps(nl[r])[m])[j].regwidth = Absent} }
                    : m \in 1..Len(addrmaps(nl[r])) }
            : r \in 1..Len(nl) }

KnownOptions == {"onFirstPage", "onLaterPages", "use_uppercase_inst_name", "field_display_order"}

MsbFirst(id) ==
    Pop(ExportInputs[id].kwargs, "field_display_order", "declaration") = "msb-first"

\* the fields of a register, the field of the highest bit position first
ByMsb(fs) ==
    [k \in 1..Len(fs) |->
        fs[CHOOSE j \in 1..Len(fs) :
              Cardinality({i \in 1..Len(fs) : fs[i].lsb > fs[j].lsb}) = k - 1]]

ExpectedFieldRows(nl, msb) ==
    Flatten([k \in 1..Len(AllRegs(nl)) |->
                LET fs == IF msb THEN ByMsb(AllRegs(nl)[k].fields) ELSE AllRegs(nl)[k].fields
                IN  [j \in 1..Len(fs) |-> get_inst_name(fs[j])]])

FieldRows(cs) ==
    LET rows == SelectSeq(cs, LAMBDA c : c.op = "create_fields_list_info")
    IN  [k \in 1..Len(rows) |-> rows[k].data.Identifier]

(* C19: export accepts the option field_display_order; the field rows of   *)
(* every register come in declaration order by default and with the field  *)
(* of the higher bit position first under msb-first, each field once.      *)
C19_FieldDisplayOrder ==
    (/\ ExportEnded
     /\ export_id # 0
     /\ DOMAIN ExportInputs[export_id].kwargs \subseteq KnownOptions
     /\ WidthsDefined(node_list)) =>
        /\ exc = None
        /\ FieldRows(calls) = ExpectedFieldRows(node_list, MsbFirst(export_id))

(* C20: two exports of the same model with the same options, on a fresh    *)
(* exporter or on one that has exported before, hand the backend the same  *)
(* calls with the same contents and end the same way.                      *)
C20_SameInputSameCalls ==
    \A i \in 1..Len(history) : \A j \in 1..Len(history) :
        history[i].id = history[j].id =>
            /\ history[i].calls = history[j].calls
            /\ history[i].exc = history[j].exc

C20_Witness ==
    /\ Len(history) = 3
    /\ history[1].id = 2 /\ history[1].exc = None
    /\ history[2].id = 3
    /\ history[3].id = 2
    /\ history[3].calls = history[1].calls
    /\ Len(history[3].calls) > 4
    /\ address_width = 16 /\ elem_addr_bits = 2

\* the identifier of row i (from 0) of a register in the summary
SummaryIdentifier(reg, i) ==
    IF IsUnrolled(reg) THEN get_inst_name(reg) \o <<"[">> \o DecOf(i) \o <<"]">>
    ELSE IF reg.is_array
         THEN get_inst_name(reg) \o <<"[">> \o DecOf(reg.array_dimensions[1]) \o <<"]">>
    ELSE get_inst_name(reg)

(* C21: every register of a map has its own rows in the summary, flagged   *)
(* 0, whether or not a reserved row comes before them: one row for a       *)
(* register that is no array or is not unrolled (the array shape appended  *)
(* to the identifier of an array), one row per element for an unrolled     *)
(* array; reserved rows are flagged 1 and have the identifier "-".         *)
C21_NormalRows ==
    InSummary =>
        LET rows == Rows
            d    == Summary
        IN  /\ \A j \in 1..Len(rows) :
                  /\ rows[j].reserved \in {0, 1}
                  /\ rows[j].reserved = 1 <=> rows[j].data.Identifier = Dash
            /\ \A k \in 1..Len(node.regs) :
                  LET reg == node.regs[k]
                      n   == IF IsUnrolled(reg) THEN reg.array_dimensions[1] ELSE 1
                      f   == FirstRow(d, k)
                  IN  /\ RegRows(d, k) # {}
                      /\ RegRows(d, k) = f..(f + n - 1)
                      /\ \A j \in RegRows(d, k) :
                            /\ rows[j].reserved = 0
                            /\ rows[j].data.Identifier = SummaryIdentifier(reg, j - f)
                            /\ rows[j].data.Name = get_inst_name(reg)
                            /\ d[j].lo = ShiftR(reg.raw_address_offset
                                                + (IF IsUnrolled(reg)
                                                   THEN (j - f) * reg.array_stride ELSE 0),
                                                elem_addr_bits)

C21_Witness ==
    /\ pc = "done"
    /\ Len(node.regs) = 2
    /\ node.regs[1].is_array /\ ~IsUnrolled(node.regs[1])
    /\ IsUnrolled(node.regs[2])
    /\ LET d == Summary
       IN  /\ Len(d) = 4
           /\ ~d[1].reserved
           /\ d[2].reserved
           /\ RegRows(d, 2) = {3, 4}

(* C22: every reserved row "X through Y" of the summary is well-formed: X  *)
(* is not above Y, X is not below the end of the register before it and Y  *)
(* is below the start of the register after it, also for a gap smaller     *)
(* than that register, at every granularity. Stated for the maps whose     *)
(* registers start on and span a multiple of the element size.             *)
C22_RangeRowsWellFormed ==
    (InSummary /\ ElementAligned) =>
        LET d == Summary
        IN  \A j \in 1..(Len(d) - 1) :
                (d[j].reserved /\ d[j].range) =>
                    LET k == d[j + 1].reg
                    IN  /\ d[j].lo <= d[j].hi
                        /\ k > 1 => d[j].lo >= ShiftR(PrevEnd(k), elem_addr_bits)
                        /\ d[j].hi < ShiftR(node.regs[k].raw_address_offset, elem_addr_bits)

\* what a map resolves to by its own properties
ResolvedWidth(m) ==
    IF m.udp.address_width_p = Absent THEN 32 ELSE m.udp.address_width_p[1]
ResolvedBase(m) ==
    IF m.udp.base_address_p = Absent THEN 0 ELSE m.udp.base_address_p[1]
ResolvedBits(m) ==
    IF m.udp.addr_elem_size = Absent THEN 0 ELSE Log2Floor(m.udp.addr_elem_size[1])
ResolvedUnits(m) ==
    IF ResolvedBits(m) = 0 THEN "bytes" ELSE "uint" \o ToString(8 * m.udp.addr_elem_size[1])

\* the index of the header of the map in progress
LastHeader ==
    CHOOSE h \in 1..Len(calls) :
        /\ calls[h].op = "create_addrmap_info"
        /\ \A j \in (h + 1)..Len(calls) : calls[j].op # "create_addrmap_info"

(* C23: during the summary pass and the detail pass of a map M the address *)
(* width, base address, granularity and units in effect are those M        *)
(* resolves to itself, whatever map was processed before; every address of *)
(* M's tables is formatted with them, and the absolute address of a        *)
(* register is M's base address plus the raw offset, shifted right by M's  *)
(* granularity.                                                            *)
C23_ContextIsTheMapsOwn ==
    /\ pc \in {"info", "loop", "detail"} =>
          /\ address_width = ResolvedWidth(node)
          /\ base_address = ResolvedBase(node)
          /\ elem_addr_bits = ResolvedBits(node)
          /\ units = ResolvedUnits(node)
    /\ pc \in {"loop", "detail"} =>
          LET h == LastHeader
          IN  /\ calls[h].data.units = ResolvedUnits(node)
              /\ WidthPrefix(calls[h].data.Base_address) = DecOf(ResolvedWidth(node))
              /\ NumberValue(calls[h].data.Base_address)
                    = ShiftR(ResolvedBase(node), ResolvedBits(node))
              /\ calls[h].data.Size = PyHex(ShiftR(node.size, ResolvedBits(node)))
              /\ \A j \in (h + 1)..Len(calls) :
                    calls[j].op = "create_reg_list_info" =>
                        /\ calls[j].data.units = ResolvedUnits(node)
                        /\ WidthPrefix(calls[j].data.Offset) = DecOf(ResolvedWidth(node))
    /\ pc = "detail" =>
          \A k \in 1..Len(registers(node)) :
              LET reg == registers(node)[k]
              IN  /\ WidthPrefix(get_reg_absolute_address(reg)) = DecOf(ResolvedWidth(node))
                  /\ NumberValue(get_reg_absolute_address(reg))
                        = ShiftR(ResolvedBase(node) + reg.raw_address_offset,
                                 ResolvedBits(node))
                  /\ NumberValue(get_reg_offset(reg))
                        = ShiftR(reg.raw_address_offset, ResolvedBits(node))
                  /\ get_reg_size(reg) = PyHex(ShiftR(total_size(reg), ResolvedBits(node)))

C23_Witness ==
    /\ pc = "detail"
    /\ node = MapBased
    /\ Len(history) = 1
    /\ history[1].id = 5
    /\ address_width = 16 /\ base_address = 64 /\ elem_addr_bits = 2 /\ units = "uint32"
    /\ \E j \in 1..Len(calls) :
          /\ calls[j].op = "create_addrmap_info"
          /\ calls[j].data.units = "bytes"
          /\ WidthPrefix(calls[j].data.Base_address) = <<"3", "2">>
    /\ NumberValue(get_reg_absolute_address(registers(node)[1])) = 18

====
